---- MODULE Spec2Model ----
(***************************************************************************)
(* Model of the search / filter engine of web/src/pages/Home.jsx:          *)
(* text normalisation, tree flattening, the four search modes of the       *)
(* filteredData memo and the context expansion of                          *)
(* includeParentsAndChildren.                                              *)
(*                                                                         *)
(* A JavaScript string is a sequence of characters; a character is a       *)
(* one-element TLA+ string naming it.  "A+breve" and "a+breve" are the     *)
(* precomposed letters U+0102 and U+0103, "+breve" is the stand-alone      *)
(* combining mark U+0306.                                                  *)
(***************************************************************************)
EXTENDS Integers, Sequences, FiniteSets, TLC

VARIABLES flatData, debouncedFilter, filteredData, matchedItems, branch,
          data, response, loading, idToIndex,
          filter, timer, timers, nextTimerId, sinceInput, hung, unmounted,
          toast, toastTimers, nextToastTimerId, sinceToast,
          normalizeArg, normalizeResult,
          text, searchTerm, pc, wordIndex, startIndex, matches, merged, parts

\* the state of the search: the records, the query and the memo
searchVars == <<flatData, debouncedFilter, filteredData, matchedItems, branch>>

\* the state of the load effect: the document at the url, whether the fetch
\* gives it ("ok") or fails ("rejected"), the loading flag and the
\* id-to-index map built while flattening
loadVars == <<data, response, loading, idToIndex>>

\* the input and its debounce: the raw value, the handle the cleanup of the
\* debounce effect holds, the timers set and not yet fired or cleared, the
\* next handle, the time (ms, up to the delay) since the raw value last
\* changed, and whether a render has entered a loop it never leaves
inputVars == <<filter, timer, timers, nextTimerId, sinceInput, hung, unmounted>>

\* the toast, its hide timers, the next handle and the time (ms, up to the
\* delay) since a toast was last shown
toastVars == <<toast, toastTimers, nextToastTimerId, sinceToast>>

\* one call of normalizeText: its argument and what the call gave
normalizeVars == <<normalizeArg, normalizeResult>>

\* one call of highlightText: its arguments, the position of the call, the
\* locals of the scan (the word being scanned, startIndex, matches), the
\* merged ranges and the fragments returned
highlightVars ==
    <<text, searchTerm, pc, wordIndex, startIndex, matches, merged, parts>>

vars == <<searchVars, loadVars, normalizeVars, highlightVars, inputVars, toastVars>>

(***************************************************************************)
(* Bounds of the model.                                                    *)
(***************************************************************************)
MaxQueryLen == 4

(***************************************************************************)
(* Characters.                                                             *)
(***************************************************************************)
QUOTE == "\""

STAR == "*"

SPACE == " "

\* the characters /\s/ and String.prototype.trim treat as whitespace
WhiteSpace == {SPACE}

\* the characters of the class [0-9]
Digits == {"0", "1", "2", "3", "4", "5", "6", "7", "8", "9"}

\* the characters of the class [U+0300-U+036F]
CombiningMarks == {"+breve"}

Min(a, b) == IF a < b THEN a ELSE b

Max(a, b) == IF a > b THEN a ELSE b

(***************************************************************************)
(* String.prototype methods used by Home.jsx.                              *)
(***************************************************************************)
RECURSIVE trimStart(_)
trimStart(s) ==
    IF s = <<>> THEN s
    ELSE IF Head(s) \in WhiteSpace THEN trimStart(Tail(s)) ELSE s

RECURSIVE trimEnd(_)
trimEnd(s) ==
    IF s = <<>> THEN s
    ELSE IF s[Len(s)] \in WhiteSpace THEN trimEnd(SubSeq(s, 1, Len(s) - 1)) ELSE s

trim(s) == trimEnd(trimStart(s))

\* s.slice(b, e): negative indices count from the end
slice(s, b, e) ==
    LET n    == Len(s)
        from == IF b < 0 THEN Max(n + b, 0) ELSE Min(b, n)
        to   == IF e < 0 THEN Max(n + e, 0) ELSE Min(e, n)
    IN  IF from >= to THEN <<>> ELSE SubSeq(s, from + 1, to)

startsWith(s, p) == Len(p) <= Len(s) /\ SubSeq(s, 1, Len(p)) = p

endsWith(s, p) == Len(p) <= Len(s) /\ SubSeq(s, Len(s) - Len(p) + 1, Len(s)) = p

\* s.indexOf(p, from): 0-based offset of the first occurrence at or after
\* from, -1 when there is none; the empty string occurs at every offset up
\* to the length of s, so it is found at from, or at the length of s when
\* from is beyond it
RECURSIVE indexOf(_, _, _)
indexOf(s, p, from) ==
    IF p = <<>> THEN Min(from, Len(s))
    ELSE IF from + Len(p) > Len(s) THEN -1
    ELSE IF SubSeq(s, from + 1, from + Len(p)) = p THEN from
    ELSE indexOf(s, p, from + 1)

includes(s, p) == indexOf(s, p, 0) # -1

\* s.replace(/\s/g, '')
removeWhitespace(s) == SelectSeq(s, LAMBDA c : c \notin WhiteSpace)

\* /^[0-9]+$/.test(s)
isAllDigits(s) == s # <<>> /\ \A i \in 1..Len(s) : s[i] \in Digits

\* s.split(/\s+/)
RECURSIVE splitFrom(_, _)
splitFrom(s, cur) ==
    IF s = <<>> THEN <<cur>>
    ELSE IF Head(s) \in WhiteSpace
         THEN <<cur>> \o splitFrom(trimStart(Tail(s)), <<>>)
         ELSE splitFrom(Tail(s), Append(cur, Head(s)))

split(s) == splitFrom(s, <<>>)

(***************************************************************************)
(* normalizeText: toLowerCase, then NFD decomposition, then removal of     *)
(* the combining marks.                                                    *)
(***************************************************************************)
\* variant: capitals are kept
toLowerCaseChar_keepCase(c) == c

toLowerCaseChar(c) ==
    CASE c = "A" -> "a"
      [] c = "B" -> "b"
      [] c = "A+breve" -> "a+breve"
      [] OTHER -> c

toLowerCase(s) == [i \in 1..Len(s) |-> toLowerCaseChar(s[i])]

nfdChar(c) ==
    CASE c = "a+breve" -> <<"a", "+breve">>
      [] c = "A+breve" -> <<"A", "+breve">>
      [] OTHER -> <<c>>

RECURSIVE nfd(_)
nfd(s) == IF s = <<>> THEN <<>> ELSE nfdChar(Head(s)) \o nfd(Tail(s))

\* variant: .replace without the g flag removes the first mark only
stripCombiningMarks_firstOnly(s) ==
    IF \E i \in 1..Len(s) : s[i] \in CombiningMarks
    THEN LET first == CHOOSE i \in 1..Len(s) :
                         /\ s[i] \in CombiningMarks
                         /\ \A j \in 1..(i - 1) : s[j] \notin CombiningMarks
         IN  SubSeq(s, 1, first - 1) \o SubSeq(s, first + 1, Len(s))
    ELSE s

stripCombiningMarks(s) == SelectSeq(s, LAMBDA c : c \notin CombiningMarks)

\* the value null, and the TypeError thrown by a method call on it
Null == <<"<null>">>

TypeError == <<"<TypeError>">>

normalizeText(str) ==
    IF str = Null THEN TypeError
    ELSE stripCombiningMarks(nfd(toLowerCase(str)))

\* no call of normalizeText or highlightText is under way
Pending == <<"<pending>">>

NoNormalizeCall == normalizeArg = <<>> /\ normalizeResult = Pending

NoHighlightCall ==
    /\ text = <<>>
    /\ searchTerm = <<>>
    /\ pc = "idle"
    /\ wordIndex = 0
    /\ startIndex = 0
    /\ matches = <<>>
    /\ merged = <<>>
    /\ parts = <<>>

(***************************************************************************)
(* The load effect: flatten.  A node of the JSON document is a record      *)
(* that holds exactly the fields present (and not null) in the document,   *)
(* so node.f || d is d when f is not in the node's domain.                 *)
(***************************************************************************)
\* variant: only `node.tax_info` has its `|| {}`, the fields are read bare
OrDefault_noDefault(obj, f, d) ==
    IF f \in DOMAIN obj THEN obj[f]
    ELSE IF f = "tax_info" THEN d ELSE <<"undefined">>

OrDefault(obj, f, d) == IF f \in DOMAIN obj THEN obj[f] ELSE d

\* the object {} of `node.tax_info || {}`
EmptyObject == [f \in {} |-> <<>>]

\* variant: the children are visited after the siblings
RECURSIVE flatten_childrenAfterSiblings(_, _, _, _)
flatten_childrenAfterSiblings(flattened, nodes, level, parentIds) ==
    IF nodes = <<>> THEN flattened
    ELSE LET node         == Head(nodes)
             taxInfo      == OrDefault(node, "tax_info", EmptyObject)
             currentIndex == Len(flattened)
             item == [id          |-> node.id,
                      nc          |-> OrDefault(node, "nc", <<>>),
                      name_ro     |-> OrDefault(node, "name_ro", <<>>),
                      name_ru     |-> OrDefault(node, "name_ru", <<>>),
                      name_en     |-> OrDefault(node, "name_en", <<>>),
                      import_acts |-> OrDefault(node, "import_acts", <<>>),
                      level       |-> level,
                      parentIds   |-> parentIds,
                      indexInTree |-> currentIndex,
                      vat         |-> OrDefault(taxInfo, "vat", <<>>),
                      excise      |-> OrDefault(taxInfo, "excise", <<>>),
                      tax_values  |-> OrDefault(taxInfo, "tax_values", <<>>)]
             pushed == Append(flattened, item)
             withSiblings ==
                 flatten_childrenAfterSiblings(pushed, Tail(nodes), level, parentIds)
         IN  IF "children" \in DOMAIN node /\ Len(node.children) > 0
             THEN flatten_childrenAfterSiblings(withSiblings, node.children, level + 1,
                                                Append(parentIds, node.id))
             ELSE withSiblings

\* variant: the children get the parentIds of their parent
RECURSIVE flatten_parentNotPushed(_, _, _, _)
flatten_parentNotPushed(flattened, nodes, level, parentIds) ==
    IF nodes = <<>> THEN flattened
    ELSE LET node         == Head(nodes)
             taxInfo      == OrDefault(node, "tax_info", EmptyObject)
             currentIndex == Len(flattened)
             item == [id          |-> node.id,
                      nc          |-> OrDefault(node, "nc", <<>>),
                      name_ro     |-> OrDefault(node, "name_ro", <<>>),
                      name_ru     |-> OrDefault(node, "name_ru", <<>>),
                      name_en     |-> OrDefault(node, "name_en", <<>>),
                      import_acts |-> OrDefault(node, "import_acts", <<>>),
                      level       |-> level,
                      parentIds   |-> parentIds,
                      indexInTree |-> currentIndex,
                      vat         |-> OrDefault(taxInfo, "vat", <<>>),
                      excise      |-> OrDefault(taxInfo, "excise", <<>>),
                      tax_values  |-> OrDefault(taxInfo, "tax_values", <<>>)]
             pushed == Append(flattened, item)
             withChildren ==
                 IF "children" \in DOMAIN node /\ Len(node.children) > 0
                 THEN flatten_parentNotPushed(pushed, node.children, level + 1,
                                              parentIds)
                 ELSE pushed
         IN  flatten_parentNotPushed(withChildren, Tail(nodes), level, parentIds)

RECURSIVE flatten(_, _, _, _)
flatten(flattened, nodes, level, parentIds) ==
    IF nodes = <<>> THEN flattened
    ELSE LET node         == Head(nodes)
             taxInfo      == OrDefault(node, "tax_info", EmptyObject)
             currentIndex == Len(flattened)
             item == [id          |-> node.id,
                      nc          |-> OrDefault(node, "nc", <<>>),
                      name_ro     |-> OrDefault(node, "name_ro", <<>>),
                      name_ru     |-> OrDefault(node, "name_ru", <<>>),
                      name_en     |-> OrDefault(node, "name_en", <<>>),
                      import_acts |-> OrDefault(node, "import_acts", <<>>),
                      level       |-> level,
                      parentIds   |-> parentIds,
                      indexInTree |-> currentIndex,
                      vat         |-> OrDefault(taxInfo, "vat", <<>>),
                      excise      |-> OrDefault(taxInfo, "excise", <<>>),
                      tax_values  |-> OrDefault(taxInfo, "tax_values", <<>>)]
             pushed == Append(flattened, item)
             withChildren ==
                 IF "children" \in DOMAIN node /\ Len(node.children) > 0
                 THEN flatten(pushed, node.children, level + 1,
                              Append(parentIds, node.id))
                 ELSE pushed
         IN  flatten(withChildren, Tail(nodes), level, parentIds)

\* Map.prototype.set
MapSet(map, key, value) ==
    [k \in DOMAIN map \cup {key} |-> IF k = key THEN value ELSE map[k]]

EmptyMap == [k \in {} |-> 0]

\* idToIndex.set(node.id, currentIndex) along the traversal of flatten;
\* acc.count is flattened.length
RECURSIVE idToIndexAfter(_, _)
idToIndexAfter(acc, nodes) ==
    IF nodes = <<>> THEN acc
    ELSE LET node   == Head(nodes)
             pushed == [map   |-> MapSet(acc.map, node.id, acc.count),
                        count |-> acc.count + 1]
             withChildren ==
                 IF "children" \in DOMAIN node /\ Len(node.children) > 0
                 THEN idToIndexAfter(pushed, node.children)
                 ELSE pushed
         IN  idToIndexAfter(withChildren, Tail(nodes))

\* the state setFlatData / setLoading(false) leave after flatten(data)
LoadedFrom(doc) ==
    /\ data = doc
    /\ flatData = flatten(<<>>, doc, 0, <<>>)
    /\ idToIndex = idToIndexAfter([map |-> EmptyMap, count |-> 0], doc).map
    /\ response = "ok"
    /\ loading = FALSE

\* the input was never touched and no debounce timer is set
NoInput ==
    /\ filter = <<>>
    /\ timer = 0
    /\ timers = {}
    /\ nextTimerId = 1
    /\ sinceInput = 0
    /\ hung = FALSE
    /\ unmounted = FALSE

\* useState({ show: false, message: '' })
NoToastShown == [show |-> FALSE, message |-> ""]

NoToast ==
    /\ toast = NoToastShown
    /\ toastTimers = {}
    /\ nextToastTimerId = 1
    /\ sinceToast = 0

(***************************************************************************)
(* includeParentsAndChildren: the context expansion.                       *)
(***************************************************************************)
SeqToSet(s) == {s[i] : i \in 1..Len(s)}

\* variant: only the direct children of a matched item are added
idsAddedFor_directChildren(flat, item) ==
    {item.id}
        \cup SeqToSet(item.parentIds)
        \cup {flat[i].id : i \in {k \in 1..Len(flat) :
                                    /\ flat[k].parentIds # <<>>
                                    /\ flat[k].parentIds[Len(flat[k].parentIds)] = item.id}}

\* variant: the parentIds of a matched item are not added
idsAddedFor_noParents(flat, item) ==
    {item.id}
        \cup {flat[i].id : i \in {k \in 1..Len(flat) :
                                    item.id \in SeqToSet(flat[k].parentIds)}}

\* the ids one matched item adds to itemsToShow: itself, its parentIds and
\* every record of flatData whose parentIds includes its id
idsAddedFor(flat, item) ==
    {item.id}
        \cup SeqToSet(item.parentIds)
        \cup {flat[i].id : i \in {k \in 1..Len(flat) :
                                    item.id \in SeqToSet(flat[k].parentIds)}}

RECURSIVE itemsToShowOf(_, _)
itemsToShowOf(flat, matched) ==
    IF matched = <<>> THEN {}
    ELSE idsAddedFor(flat, Head(matched)) \cup itemsToShowOf(flat, Tail(matched))

\* Array.prototype.sort((a, b) => a.indexInTree - b.indexInTree): stable
RECURSIVE insertByIndexInTree(_, _)
insertByIndexInTree(sorted, item) ==
    IF sorted = <<>> THEN <<item>>
    ELSE IF sorted[Len(sorted)].indexInTree <= item.indexInTree
         THEN Append(sorted, item)
         ELSE Append(insertByIndexInTree(SubSeq(sorted, 1, Len(sorted) - 1), item),
                     sorted[Len(sorted)])

RECURSIVE sortByIndexInTree(_)
sortByIndexInTree(items) ==
    IF items = <<>> THEN <<>>
    ELSE insertByIndexInTree(sortByIndexInTree(SubSeq(items, 1, Len(items) - 1)),
                             items[Len(items)])

\* variant: the matched items first, the context records after them
includeParentsAndChildren_matchesFirst(flat, matched) ==
    IF Len(matched) = 0 THEN <<>>
    ELSE LET itemsToShow == itemsToShowOf(flat, matched)
         IN  matched \o SelectSeq(flat, LAMBDA item :
                                     /\ item.id \in itemsToShow
                                     /\ item \notin SeqToSet(matched))

includeParentsAndChildren(flat, matched) ==
    IF Len(matched) = 0 THEN <<>>
    ELSE LET itemsToShow == itemsToShowOf(flat, matched)
         IN  sortByIndexInTree(SelectSeq(flat, LAMBDA item : item.id \in itemsToShow))

(***************************************************************************)
(* The filteredData memo: mode dispatch and the matchers.                  *)
(***************************************************************************)
\* variant: a quote at either end is enough
isExactSearch_eitherEnd(searchTrimmed) ==
    startsWith(searchTrimmed, <<QUOTE>>) \/ endsWith(searchTrimmed, <<QUOTE>>)

isExactSearch(searchTrimmed) ==
    startsWith(searchTrimmed, <<QUOTE>>) /\ endsWith(searchTrimmed, <<QUOTE>>)

\* variant: the code is not searched
exactMatches_namesOnly(item, exactNormalized) ==
    LET nameRo == normalizeText(item.name_ro)
        nameRu == normalizeText(item.name_ru)
        nameEn == normalizeText(item.name_en)
    IN  \/ includes(nameRo, exactNormalized)
        \/ includes(nameRu, exactNormalized)
        \/ includes(nameEn, exactNormalized)

exactMatches(item, exactNormalized) ==
    LET nameRo == normalizeText(item.name_ro)
        nameRu == normalizeText(item.name_ru)
        nameEn == normalizeText(item.name_en)
        nc     == normalizeText(item.nc)
    IN  \/ includes(nameRo, exactNormalized)
        \/ includes(nameRu, exactNormalized)
        \/ includes(nameEn, exactNormalized)
        \/ includes(nc, exactNormalized)

isWildcard(searchTrimmed) == endsWith(searchTrimmed, <<STAR>>)

wildcardMatches(item, searchNormalized) ==
    LET displayCode == normalizeText(item.nc)
    IN  startsWith(displayCode, searchNormalized)

isNumericSearch(searchValueNoSpaces) == isAllDigits(searchValueNoSpaces)

\* variant: the digits must open the code
numericMatches_prefix(item, searchValueNoSpaces) == startsWith(item.nc, searchValueNoSpaces)

numericMatches(item, searchValueNoSpaces) == includes(item.nc, searchValueNoSpaces)

\* variant: one word found is enough
wordsMatch_anyWord(item, searchWords) ==
    LET nameRo == normalizeText(item.name_ro)
        nameRu == normalizeText(item.name_ru)
        nameEn == normalizeText(item.name_en)
    IN  \E k \in 1..Len(searchWords) :
            \/ includes(nameRo, searchWords[k])
            \/ includes(nameRu, searchWords[k])
            \/ includes(nameEn, searchWords[k])

wordsMatch(item, searchWords) ==
    LET nameRo == normalizeText(item.name_ro)
        nameRu == normalizeText(item.name_ru)
        nameEn == normalizeText(item.name_en)
    IN  \A k \in 1..Len(searchWords) :
            \/ includes(nameRo, searchWords[k])
            \/ includes(nameRu, searchWords[k])
            \/ includes(nameEn, searchWords[k])

\* variant: the filter is not trimmed before the test
isEmptyFilter_noTrim(filterValue) == filterValue = <<>>

\* !debouncedFilter.trim()
isEmptyFilter(filterValue) == trim(filterValue) = <<>>

\* the value of the memo, with the branch that returned it and that
\* branch's local matchedItems
computeFilteredData(flat, filterValue) ==
    IF isEmptyFilter(filterValue)
    THEN [branch |-> "identity", matchedItems |-> <<>>, result |-> flat]
    ELSE
    LET searchTrimmed == trim(filterValue) IN
    IF isExactSearch(searchTrimmed)
    THEN LET exactValue      == slice(searchTrimmed, 1, -1)
             exactNormalized == normalizeText(exactValue)
             matched == SelectSeq(flat, LAMBDA item : exactMatches(item, exactNormalized))
         IN  [branch |-> "exact", matchedItems |-> matched,
              result |-> includeParentsAndChildren(flat, matched)]
    ELSE
    LET searchValue == IF isWildcard(searchTrimmed)
                       THEN slice(searchTrimmed, 0, -1) ELSE searchTrimmed IN
    IF isWildcard(searchTrimmed)
    THEN LET searchNormalized == removeWhitespace(normalizeText(searchValue))
             matched == SelectSeq(flat, LAMBDA item : wildcardMatches(item, searchNormalized))
         IN  [branch |-> "wildcard", matchedItems |-> matched,
              result |-> includeParentsAndChildren(flat, matched)]
    ELSE
    LET searchValueNoSpaces == removeWhitespace(searchValue) IN
    IF isNumericSearch(searchValueNoSpaces)
    THEN LET matched == SelectSeq(flat, LAMBDA item : numericMatches(item, searchValueNoSpaces))
         IN  [branch |-> "numeric", matchedItems |-> matched,
              result |-> includeParentsAndChildren(flat, matched)]
    ELSE LET words       == split(trim(searchValue))
             searchWords == [k \in 1..Len(words) |-> normalizeText(words[k])]
             matched == SelectSeq(flat, LAMBDA item : wordsMatch(item, searchWords))
         IN  [branch |-> "words", matchedItems |-> matched,
              result |-> includeParentsAndChildren(flat, matched)]

(***************************************************************************)
(* Inputs: the documents the fetch delivers and the query strings.         *)
(***************************************************************************)
QueryAlphabet == {QUOTE, STAR, SPACE, "0", "1", "a", "A+breve"}

Queries == UNION {[1..n -> QueryAlphabet] : n \in 0..MaxQueryLen}

\* a three-level tree; node 2 has no code, several name variants are absent
DocNested ==
    <<[id |-> 1, nc |-> <<"0", "1">>, name_ro |-> <<"A", "a+breve">>,
       name_en |-> <<"b">>,
       children |->
         <<[id |-> 2, name_ro |-> <<"b">>,
            children |->
              <<[id |-> 3, nc |-> <<"0", "1", "0">>, name_ro |-> <<"a">>,
                 name_ru |-> <<"a">>, name_en |-> <<"1", " ", "a">>,
                 children |-> <<>>]>>],
           [id |-> 4, nc |-> <<"0", "1", "1">>, name_ro |-> <<"a", "b", "a">>,
            name_ru |-> <<"0">>]>>]>>

\* two roots; a code holding a space, a code holding a letter, a name
\* holding a double quote
DocTwoRoots ==
    <<[id |-> 5, nc |-> <<"1">>, name_ro |-> <<"0", "1", " ", "b">>,
       children |->
         <<[id |-> 6, nc |-> <<"0", " ", "1">>, name_ro |-> <<"a", " ", "a">>]>>],
      [id |-> 7, nc |-> <<"A", "1">>, name_ro |-> <<"A+breve">>, name_ru |-> <<"1">>,
       children |->
         <<[id |-> 8, nc |-> <<"1", "0">>, name_en |-> <<QUOTE, "a">>]>>]>>

\* a chain of four levels
DocChain ==
    <<[id |-> 9, name_ro |-> <<"a">>,
       children |->
         <<[id |-> 10, nc |-> <<"0">>, name_ru |-> <<"a", "1">>,
            children |->
              <<[id |-> 11, nc |-> <<"0", "0">>, name_en |-> <<"A">>,
                 children |->
                   <<[id |-> 12, nc |-> <<"0", "0", "1">>,
                      name_ro |-> <<"b", "+breve">>]>>]>>]>>]>>

DocEmpty == <<>>

Documents == {DocNested, DocTwoRoots, DocChain, DocEmpty}

(***************************************************************************)
(* State machine of one evaluation of the filteredData memo: the state     *)
(* holds the flattened records and the debounced query; branch is          *)
(* "pending" until the memo has been recomputed, then names the return     *)
(* statement that produced filteredData.                                   *)
(***************************************************************************)
SearchInit ==
    /\ \E doc \in Documents : LoadedFrom(doc)
    /\ debouncedFilter \in Queries
    /\ filteredData = <<>>
    /\ matchedItems = <<>>
    /\ branch = "pending"
    /\ NoNormalizeCall
    /\ NoHighlightCall
    /\ NoInput
    /\ NoToast

RecomputeFilteredData ==
    /\ branch = "pending"
    /\ LET memo == computeFilteredData(flatData, debouncedFilter)
       IN  /\ filteredData' = memo.result
           /\ matchedItems' = memo.matchedItems
           /\ branch' = memo.branch
    /\ UNCHANGED <<flatData, debouncedFilter>>
    /\ UNCHANGED <<loadVars, normalizeVars, highlightVars, inputVars, toastVars>>

SearchNext == RecomputeFilteredData

SearchSpec == SearchInit /\ [][SearchNext]_vars

(***************************************************************************)
(* The same evaluation for the queries a user types as an NC code with     *)
(* separators: digits, blanks and dots.                                    *)
(***************************************************************************)
DOT == "."

SeparatedCodeAlphabet == {"0", "1", SPACE, DOT}

SeparatedCodeQueries == UNION {[1..n -> SeparatedCodeAlphabet] : n \in 0..MaxQueryLen}

SeparatedCodeInit ==
    /\ \E doc \in Documents : LoadedFrom(doc)
    /\ debouncedFilter \in SeparatedCodeQueries
    /\ filteredData = <<>>
    /\ matchedItems = <<>>
    /\ branch = "pending"
    /\ NoNormalizeCall
    /\ NoHighlightCall
    /\ NoInput
    /\ NoToast

SeparatedCodeSpec == SeparatedCodeInit /\ [][SearchNext]_vars

(***************************************************************************)
(* The same evaluation for text queries written with capitals, with        *)
(* precomposed diacritics and with stand-alone combining marks.            *)
(***************************************************************************)
MaxTextQueryLen == 3

TextQueryAlphabet == {QUOTE, STAR, SPACE, "a", "A+breve", "+breve"}

TextQueries == UNION {[1..n -> TextQueryAlphabet] : n \in 0..MaxTextQueryLen}

TextSearchInit ==
    /\ \E doc \in Documents : LoadedFrom(doc)
    /\ debouncedFilter \in TextQueries
    /\ filteredData = <<>>
    /\ matchedItems = <<>>
    /\ branch = "pending"
    /\ NoNormalizeCall
    /\ NoHighlightCall
    /\ NoInput
    /\ NoToast

TextSearchSpec == TextSearchInit /\ [][SearchNext]_vars

(***************************************************************************)
(* The load effect.  The documents are the ones above, the example tree    *)
(* of the flattener and every forest of at most MaxNodes nodes, with ids   *)
(* that do not follow the traversal order and with optional fields         *)
(* present or absent according to the position of the node.                *)
(***************************************************************************)
MaxNodes == 4

\* a shape is the sequence of the shapes of the children
RECURSIVE ForestShapes(_)
ForestShapes(n) ==
    IF n = 0 THEN {<<>>}
    ELSE UNION {{<<first>> \o rest : first \in ForestShapes(k - 1),
                                     rest \in ForestShapes(n - k)} : k \in 1..n}

IdAtPosition(pos) == 10 + ((pos * 3) % 7)

TaxInfoVariant(k) ==
    IF k % 3 = 1 THEN [vat |-> <<"2", "0">>]
    ELSE [vat        |-> <<"8">>,
          excise     |-> <<"1">>,
          tax_values |-> <<[country |-> 1, tax_value |-> <<"5">>]>>]

NodeAtPosition(pos, variant, children) ==
    LET k == pos + variant
    IN  [id |-> IdAtPosition(pos)]
          @@ (IF k % 3 # 0 THEN "nc" :> <<"0", "1">> ELSE <<>>)
          @@ (IF k % 2 = 0 THEN "name_ro" :> <<"a">> ELSE <<>>)
          @@ (IF variant = 1 THEN "name_ru" :> <<"b">> ELSE <<>>)
          @@ (IF k % 3 = 1 THEN "import_acts" :> <<"act">> ELSE <<>>)
          @@ (IF k % 3 # 0 THEN "tax_info" :> TaxInfoVariant(k) ELSE <<>>)
          @@ (IF children # <<>> \/ variant = 1 THEN "children" :> children ELSE <<>>)

\* the nodes of a forest shape whose first node is at position pos
RECURSIVE LabelFrom(_, _, _)
LabelFrom(shape, pos, variant) ==
    IF shape = <<>> THEN [nodes |-> <<>>, next |-> pos]
    ELSE LET below == LabelFrom(Head(shape), pos + 1, variant)
             after == LabelFrom(Tail(shape), below.next, variant)
         IN  [nodes |-> <<NodeAtPosition(pos, variant, below.nodes)>> \o after.nodes,
              next  |-> after.next]

GeneratedDocuments ==
    {LabelFrom(shape, 0, variant).nodes :
        shape \in UNION {ForestShapes(n) : n \in 0..MaxNodes}, variant \in 0..2}

\* the example tree of the flattener: 1 with the children 2 and 3
DocExample ==
    <<[id |-> 1,
       children |-> <<[id |-> 2, children |-> <<>>], [id |-> 3, children |-> <<>>]>>]>>

LoadableDocuments == Documents \cup {DocExample} \cup GeneratedDocuments

LoadInit ==
    /\ \/ response = "ok" /\ data \in LoadableDocuments
       \/ response = "rejected" /\ data = <<>>
    /\ loading = TRUE
    /\ flatData = <<>>
    /\ idToIndex = EmptyMap
    /\ debouncedFilter = <<>>
    /\ filteredData = <<>>
    /\ matchedItems = <<>>
    /\ branch = "identity"
    /\ NoNormalizeCall
    /\ NoHighlightCall
    /\ NoInput
    /\ NoToast

\* the .then(data => ...) callback of the load effect, or its .catch when
\* the fetch or the parsing fails, and the render that follows
LoadData ==
    /\ loading
    /\ IF response = "ok"
       THEN /\ flatData' = flatten(<<>>, data, 0, <<>>)
            /\ idToIndex' = idToIndexAfter([map |-> EmptyMap, count |-> 0], data).map
       ELSE UNCHANGED <<flatData, idToIndex>>
    /\ loading' = FALSE
    /\ LET memo == computeFilteredData(flatData', debouncedFilter)
       IN  /\ filteredData' = memo.result
           /\ matchedItems' = memo.matchedItems
           /\ branch' = memo.branch
    /\ UNCHANGED <<data, response, debouncedFilter>>
    /\ UNCHANGED <<normalizeVars, highlightVars, inputVars, toastVars>>

LoadNext == LoadData

LoadSpec == LoadInit /\ [][LoadNext]_vars

(***************************************************************************)
(* One call of normalizeText.  The argument is null or a string of at      *)
(* most MaxNormalizeLen characters: plain, capital and precomposed         *)
(* letters and the stand-alone combining mark.                             *)
(***************************************************************************)
MaxNormalizeLen == 3

NormalizeAlphabet == {"a", "A", "b", "a+breve", "A+breve", "+breve"}

NormalizeArgs ==
    {Null} \cup UNION {[1..n -> NormalizeAlphabet] : n \in 0..MaxNormalizeLen}

\* nothing is loaded and nothing is searched
NoSearch ==
    /\ data = <<>>
    /\ response = "ok"
    /\ loading = FALSE
    /\ flatData = <<>>
    /\ idToIndex = EmptyMap
    /\ debouncedFilter = <<>>
    /\ filteredData = <<>>
    /\ matchedItems = <<>>
    /\ branch = "identity"

NormalizeInit ==
    /\ NoSearch
    /\ NoHighlightCall
    /\ NoInput
    /\ NoToast
    /\ normalizeArg \in NormalizeArgs
    /\ normalizeResult = Pending

CallNormalizeText ==
    /\ normalizeResult = Pending
    /\ normalizeResult' = normalizeText(normalizeArg)
    /\ UNCHANGED <<normalizeArg, searchVars, loadVars, highlightVars>>
    /\ UNCHANGED <<inputVars, toastVars>>

NormalizeNext == CallNormalizeText

NormalizeSpec == NormalizeInit /\ [][NormalizeNext]_vars

(***************************************************************************)
(* highlightText.  A range is [start, end) in 0-based offsets; a part of   *)
(* the fragment returned is a stretch of the text, marked or not. The call *)
(* is at "call" on entry, at "scan" in the while loop of the word numbered *)
(* wordIndex, at "merge" when every word has been scanned and at "done"    *)
(* when it has returned.                                                   *)
(***************************************************************************)
\* s.substring(from, to)
substring(s, from, to) ==
    LET a == Min(Max(from, 0), Len(s))
        b == Min(Max(to, 0), Len(s))
    IN  SubSeq(s, Min(a, b) + 1, Max(a, b))

\* searchTerm.trim().split(/\s+/).filter(w => w.length > 0)
searchWordsOf(term) == SelectSeq(split(trim(term)), LAMBDA w : Len(w) > 0)

\* variant: the scan resumes after the occurrence
nextStartIndex_afterOccurrence(index, normalizedWord) == index + Len(normalizedWord)

\* startIndex = index + 1
nextStartIndex(index, normalizedWord) == index + 1

\* matches.sort((a, b) => a.start - b.start), a stable sort
RECURSIVE insertByStart(_, _)
insertByStart(sorted, match) ==
    IF sorted = <<>> THEN <<match>>
    ELSE IF match.start < Head(sorted).start THEN <<match>> \o sorted
    ELSE <<Head(sorted)>> \o insertByStart(Tail(sorted), match)

RECURSIVE sortByStart(_)
sortByStart(ms) ==
    IF ms = <<>> THEN <<>>
    ELSE insertByStart(sortByStart(SubSeq(ms, 1, Len(ms) - 1)), ms[Len(ms)])

\* variant: a range that touches the last one is kept apart
startsAfter_orTouches(last, match) == last.end <= match.start

\* merged[merged.length - 1].end < match.start
startsAfter(last, match) == last.end < match.start

RECURSIVE mergeInto(_, _)
mergeInto(acc, sorted) ==
    IF sorted = <<>> THEN acc
    ELSE LET match == Head(sorted)
         IN  IF acc = <<>> \/ startsAfter(acc[Len(acc)], match)
             THEN mergeInto(Append(acc, match), Tail(sorted))
             ELSE mergeInto(
                      [acc EXCEPT ![Len(acc)].end = Max(acc[Len(acc)].end, match.end)],
                      Tail(sorted))

Plain(str) == [mark |-> FALSE, text |-> str]

Mark(str) == [mark |-> TRUE, text |-> str]

\* merged.forEach(...) over the ranges, acc = [parts, lastEnd]
RECURSIVE partsFrom(_, _, _)
partsFrom(acc, ranges, str) ==
    IF ranges = <<>> THEN acc
    ELSE LET match  == Head(ranges)
             before == IF match.start > acc.lastEnd
                       THEN Append(acc.parts,
                                   Plain(substring(str, acc.lastEnd, match.start)))
                       ELSE acc.parts
         IN  partsFrom([parts   |-> Append(before,
                                           Mark(substring(str, match.start, match.end))),
                        lastEnd |-> match.end],
                       Tail(ranges), str)

\* variant: the text after the last range is dropped
buildParts_noRemainder(ranges, str) ==
    partsFrom([parts |-> <<>>, lastEnd |-> 0], ranges, str).parts

buildParts(ranges, str) ==
    LET acc == partsFrom([parts |-> <<>>, lastEnd |-> 0], ranges, str)
    IN  IF acc.lastEnd < Len(str)
        THEN Append(acc.parts, Plain(substring(str, acc.lastEnd, Len(str))))
        ELSE acc.parts

MaxHighlightTextLen == 3

MaxSearchTermLen == 3

\* the scan of a word whose normalized form is empty pushes a match at
\* every iteration and never leaves the loop: the model stops pushing at
\* MaxMatches, more than any scan that ends pushes
MaxMatches == 8

HighlightTextAlphabet == {"a", "b", "A+breve", "+breve"}

SearchTermAlphabet == {"a", "b", SPACE, "+breve"}

HighlightTexts ==
    UNION {[1..n -> HighlightTextAlphabet] : n \in 0..MaxHighlightTextLen}

SearchTerms == UNION {[1..n -> SearchTermAlphabet] : n \in 0..MaxSearchTermLen}

HighlightInit ==
    /\ NoSearch
    /\ NoNormalizeCall
    /\ NoInput
    /\ NoToast
    /\ text \in HighlightTexts
    /\ searchTerm \in SearchTerms
    /\ pc = "call"
    /\ wordIndex = 0
    /\ startIndex = 0
    /\ matches = <<>>
    /\ merged = <<>>
    /\ parts = <<>>

\* the early returns, or the entry into the scan of the first word
HighlightEnter ==
    /\ pc = "call"
    /\ IF searchTerm = <<>> \/ text = <<>> \/ searchWordsOf(searchTerm) = <<>>
       THEN /\ pc' = "done"
            /\ parts' = <<Plain(text)>>
            /\ UNCHANGED <<wordIndex, startIndex>>
       ELSE /\ pc' = "scan"
            /\ wordIndex' = 1
            /\ startIndex' = 0
            /\ UNCHANGED parts
    /\ UNCHANGED <<text, searchTerm, matches, merged>>
    /\ UNCHANGED <<searchVars, loadVars, normalizeVars, inputVars, toastVars>>

\* one iteration of the while loop of the word being scanned
HighlightScan ==
    /\ pc = "scan"
    /\ LET normalizedText == normalizeText(text)
           normalizedWord == normalizeText(searchWordsOf(searchTerm)[wordIndex])
           index          == indexOf(normalizedText, normalizedWord, startIndex)
       IN  IF index = -1
           THEN /\ IF wordIndex < Len(searchWordsOf(searchTerm))
                   THEN wordIndex' = wordIndex + 1 /\ pc' = "scan"
                   ELSE wordIndex' = wordIndex /\ pc' = "merge"
                /\ startIndex' = 0
                /\ UNCHANGED matches
           ELSE /\ Len(matches) < MaxMatches
                /\ matches' = Append(matches,
                                     [start |-> index,
                                      end   |-> index + Len(normalizedWord)])
                /\ startIndex' = nextStartIndex(index, normalizedWord)
                /\ UNCHANGED <<wordIndex, pc>>
    /\ UNCHANGED <<text, searchTerm, merged, parts>>
    /\ UNCHANGED <<searchVars, loadVars, normalizeVars, inputVars, toastVars>>

\* the return without a match, or the sort, the merge and the fragment
HighlightMerge ==
    /\ pc = "merge"
    /\ pc' = "done"
    /\ IF matches = <<>>
       THEN /\ parts' = <<Plain(text)>>
            /\ UNCHANGED <<matches, merged>>
       ELSE /\ matches' = sortByStart(matches)
            /\ merged' = mergeInto(<<>>, matches')
            /\ parts' = buildParts(merged', text)
    /\ UNCHANGED <<text, searchTerm, wordIndex, startIndex>>
    /\ UNCHANGED <<searchVars, loadVars, normalizeVars, inputVars, toastVars>>

HighlightNext == HighlightEnter \/ HighlightScan \/ HighlightMerge

HighlightSpec == HighlightInit /\ [][HighlightNext]_vars

(***************************************************************************)
(* The page: the load effect, the input with its debounce effect and the   *)
(* render of the rows.  A timer is [id, value, remaining]: the handle      *)
(* setTimeout returned, the filter its callback captured and the time      *)
(* (ms) before it may fire.  Time passes in steps of half the delay or     *)
(* the whole delay; a timer that is due fires at any later moment.         *)
(***************************************************************************)
DebounceDelay == 150

\* variant: the cleanup of the effect does not clear the timer
clearTimeout_notCalled(pending, handle) == pending

\* clearTimeout(timer)
clearTimeout(pending, handle) == {t \in pending : t.id # handle}

\* variant: the timer is due at once
setTimeout_noDelay(pending, handle, value, delay) ==
    pending \cup {[id |-> handle, value |-> value, remaining |-> 0]}

\* setTimeout(() => setDebouncedFilter(filter), 150)
setTimeout(pending, handle, value, delay) ==
    pending \cup {[id |-> handle, value |-> value, remaining |-> delay]}

\* time d passes for the timers pending
elapse(pending, d) ==
    {[t EXCEPT !.remaining = Max(0, t.remaining - d)] : t \in pending}

\* debouncedFilter.replace(/^"|"$/g, '').replace(/\*$/g, '').trim()
searchTermOf(query) ==
    LET a == IF query # <<>> /\ Head(query) = QUOTE THEN Tail(query) ELSE query
        b == IF a # <<>> /\ a[Len(a)] = QUOTE THEN SubSeq(a, 1, Len(a) - 1) ELSE a
        c == IF b # <<>> /\ b[Len(b)] = STAR THEN SubSeq(b, 1, Len(b) - 1) ELSE b
    IN  trim(c)

\* item.name_ro || item.name_ru || item.name_en || 'Unnamed'
displayNameOf(item) ==
    IF item.name_ro # <<>> THEN item.name_ro
    ELSE IF item.name_ru # <<>> THEN item.name_ru
    ELSE IF item.name_en # <<>> THEN item.name_en
    ELSE <<"U", "n", "n", "a", "m", "e", "d">>

\* highlightText(str, term) passes its early returns and scans a word
\* whose normalized form is empty: indexOf never gives -1 for it
highlightLoopsForever(str, term) ==
    /\ str # <<>>
    /\ term # <<>>
    /\ \E i \in 1..Len(searchWordsOf(term)) :
          normalizeText(searchWordsOf(term)[i]) = <<>>

\* the render of the rows calls highlightText on the name and on the code
\* of each row rendered
renderLoopsForever(rows, query) ==
    \E i \in 1..Len(rows) :
        \/ highlightLoopsForever(displayNameOf(rows[i]), searchTermOf(query))
        \/ highlightLoopsForever(rows[i].nc, searchTermOf(query))

\* variant: the filter and the sort work on flatData itself
flatDataAfterSearch_inPlace(flat, result) == result

\* flatData.filter(...) gives a new array and .sort reorders that array:
\* flatData keeps its records and their order
flatDataAfterSearch(flat, result) == flat

MaxTimers == 4

TypedValues == {<<>>, <<"0", "1", "1">>, <<"a">>, <<"+breve">>}

PageDocuments == {DocNested, DocEmpty}

Init ==
    /\ \/ response = "ok" /\ data \in PageDocuments
       \/ response = "rejected" /\ data = <<>>
    /\ loading = TRUE
    /\ flatData = <<>>
    /\ idToIndex = EmptyMap
    /\ filter = <<>>
    /\ debouncedFilter = <<>>
    /\ filteredData = <<>>
    /\ matchedItems = <<>>
    /\ branch = "identity"
    /\ timer = 1
    /\ timers = setTimeout({}, 1, <<>>, DebounceDelay)
    /\ nextTimerId = 2
    /\ sinceInput = 0
    /\ hung = FALSE
    /\ unmounted = FALSE
    /\ NoToast
    /\ NoNormalizeCall
    /\ NoHighlightCall

\* setFilter(value), the render, then the cleanup of the debounce effect
\* and the effect itself
ChangeFilter(value) ==
    /\ ~loading
    /\ ~hung
    /\ nextTimerId <= MaxTimers
    /\ filter' = value
    /\ timers' = setTimeout(clearTimeout(timers, timer), nextTimerId, value,
                            DebounceDelay)
    /\ timer' = nextTimerId
    /\ nextTimerId' = nextTimerId + 1
    /\ sinceInput' = 0
    /\ UNCHANGED <<hung, unmounted, searchVars, loadVars, normalizeVars, highlightVars, toastVars>>

\* onChange of the input
Type == \E value \in TypedValues \ {filter} : ChangeFilter(value)

\* onClick of the Clear button, rendered when filter is not empty
Clear == filter # <<>> /\ ChangeFilter(<<>>)

\* a debounce timer fires: setDebouncedFilter, the memo and the render of
\* the rows, which completes or never does
DebounceTimerFires ==
    /\ ~hung
    /\ \E t \in timers :
          /\ t.remaining = 0
          /\ timers' = timers \ {t}
          /\ LET memo == computeFilteredData(flatData, t.value)
             IN  IF renderLoopsForever(memo.result, t.value)
                 THEN /\ hung' = TRUE
                      /\ UNCHANGED searchVars
                 ELSE /\ debouncedFilter' = t.value
                      /\ filteredData' = memo.result
                      /\ matchedItems' = memo.matchedItems
                      /\ branch' = memo.branch
                      /\ flatData' = flatDataAfterSearch(flatData, memo.result)
                      /\ UNCHANGED hung
    /\ UNCHANGED <<filter, timer, nextTimerId, sinceInput, unmounted>>
    /\ UNCHANGED <<loadVars, normalizeVars, highlightVars, toastVars>>

PassTime ==
    /\ ~hung
    /\ \E d \in {DebounceDelay \div 2, DebounceDelay} :
          /\ timers' = elapse(timers, d)
          /\ sinceInput' = Min(DebounceDelay, sinceInput + d)
    /\ <<timers', sinceInput'>> # <<timers, sinceInput>>
    /\ UNCHANGED <<filter, timer, nextTimerId, hung, unmounted>>
    /\ UNCHANGED <<searchVars, loadVars, normalizeVars, highlightVars, toastVars>>

Next == LoadData \/ Type \/ Clear \/ DebounceTimerFires \/ PassTime

Spec == Init /\ [][Next]_vars

\* the fetch settles, time passes and a timer that is due fires
FairSpec ==
    Spec /\ WF_vars(LoadData) /\ WF_vars(PassTime) /\ WF_vars(DebounceTimerFires)

(***************************************************************************)
(* The toast of the copy and download actions.  A hide timer is a timer    *)
(* whose callback sets the toast to { show: false, message: '' }; no       *)
(* handle is kept and no timer is cleared.                                 *)
(***************************************************************************)
ToastDelay == 2000

MaxToasts == 4

\* the codes of the cells clicked: an empty cell and a code
CopiedCodes == {<<>>, <<"0", "1">>}

\* setToast({ show: true, message }) and the setTimeout that follows it
ShowToast(message) ==
    /\ nextToastTimerId <= MaxToasts
    /\ toast' = [show |-> TRUE, message |-> message]
    /\ toastTimers' = setTimeout(toastTimers, nextToastTimerId, NoToastShown,
                                 ToastDelay)
    /\ nextToastTimerId' = nextToastTimerId + 1
    /\ sinceToast' = 0

ToastInit ==
    /\ NoSearch
    /\ NoInput
    /\ NoToast
    /\ NoNormalizeCall
    /\ NoHighlightCall

\* copyToClipboard(code): nothing for an empty code or when the clipboard
\* refuses the text, else the toast
CopyToClipboard ==
    /\ \E code \in CopiedCodes, written \in BOOLEAN :
          IF code = <<>> \/ ~written
          THEN UNCHANGED toastVars
          ELSE ShowToast("Copied to clipboard!")
    /\ UNCHANGED <<searchVars, loadVars, normalizeVars, highlightVars, inputVars>>

\* handleDownload
HandleDownload ==
    /\ ShowToast("Download started!")
    /\ UNCHANGED <<searchVars, loadVars, normalizeVars, highlightVars, inputVars>>

\* the callback of a hide timer
ToastTimerFires ==
    /\ \E t \in toastTimers :
          /\ t.remaining = 0
          /\ toast' = t.value
          /\ toastTimers' = toastTimers \ {t}
    /\ UNCHANGED <<nextToastTimerId, sinceToast>>
    /\ UNCHANGED <<searchVars, loadVars, normalizeVars, highlightVars, inputVars>>

ToastPassTime ==
    /\ \E d \in {ToastDelay \div 2, ToastDelay} :
          /\ toastTimers' = elapse(toastTimers, d)
          /\ sinceToast' = Min(ToastDelay, sinceToast + d)
    /\ <<toastTimers', sinceToast'>> # <<toastTimers, sinceToast>>
    /\ UNCHANGED <<toast, nextToastTimerId>>
    /\ UNCHANGED <<searchVars, loadVars, normalizeVars, highlightVars, inputVars>>

ToastNext == CopyToClipboard \/ HandleDownload \/ ToastTimerFires \/ ToastPassTime

ToastSpec == ToastInit /\ [][ToastNext]_vars

\* time passes and a timer that is due fires
ToastFairSpec ==
    ToastSpec /\ WF_vars(ToastPassTime) /\ WF_vars(ToastTimerFires)

(***************************************************************************)
(* A document with one malformed record: one field of one node of the      *)
(* three-level tree holds a JSON number where the code reads a string.     *)
(* The document is loaded and queries are committed; a TypeError thrown    *)
(* while the component renders is caught by nothing (App.jsx has no error  *)
(* boundary) and the tree is unmounted.                                    *)
(***************************************************************************)
\* the JSON number 101 as the value of a field
NotAString == <<"<number 101>">>

\* typeof value === 'string'
isString(value) == value # NotAString

\* the document with the field f of the node id holding value
RECURSIVE withField(_, _, _, _)
withField(nodes, id, f, value) ==
    IF nodes = <<>> THEN <<>>
    ELSE LET node  == Head(nodes)
             below == IF "children" \in DOMAIN node
                      THEN [node EXCEPT !.children = withField(@, id, f, value)]
                      ELSE node
             changed == IF node.id = id THEN (f :> value) @@ below ELSE below
         IN  <<changed>> \o withField(Tail(nodes), id, f, value)

StringFields == {"nc", "name_ro", "name_ru", "name_en"}

MalformedDocuments ==
    {withField(DocNested, id, f, NotAString) : id \in 1..4, f \in StringFields}

MalformedQueries ==
    {<<"0", "1">>, <<"a">>, <<"b">>, <<QUOTE, "a", QUOTE>>, <<"0", STAR>>}

\* the fields of an item on which the matcher of a branch of the memo
\* calls a string method: normalizeText(item.name_ro) and the like call
\* toLowerCase, the numeric branch calls item.nc.includes
fieldsReadBy(memoBranch) ==
    CASE memoBranch = "exact"    -> {"name_ro", "name_ru", "name_en", "nc"}
      [] memoBranch = "wildcard" -> {"nc"}
      [] memoBranch = "numeric"  -> {"nc"}
      [] memoBranch = "words"    -> {"name_ro", "name_ru", "name_en"}
      [] OTHER                   -> {}

\* the filter callback of the memo throws a TypeError on the first item of
\* which a field it reads is not a string
memoThrows(flat, filterValue) ==
    \E k \in 1..Len(flat) :
        \E f \in fieldsReadBy(computeFilteredData(flat, filterValue).branch) :
            ~isString(flat[k][f])

\* highlightText(str, term) passes its early returns and calls
\* normalizeText(text) on a value that has no toLowerCase
highlightThrows(str, term) ==
    /\ term # <<>>
    /\ str # <<>>
    /\ searchWordsOf(term) # <<>>
    /\ ~isString(str)

\* Row calls highlightText on the name and on the code of each row
renderThrows(rows, query) ==
    \E i \in 1..Len(rows) :
        \/ highlightThrows(displayNameOf(rows[i]), searchTermOf(query))
        \/ highlightThrows(rows[i].nc, searchTermOf(query))

MalformedInit ==
    /\ response = "ok"
    /\ data \in MalformedDocuments
    /\ loading = TRUE
    /\ flatData = <<>>
    /\ idToIndex = EmptyMap
    /\ debouncedFilter = <<>>
    /\ filteredData = <<>>
    /\ matchedItems = <<>>
    /\ branch = "identity"
    /\ NoNormalizeCall
    /\ NoHighlightCall
    /\ NoInput
    /\ NoToast

\* setDebouncedFilter(query) and the render that follows: the memo, then
\* the rows; a TypeError thrown by either unmounts the component
SetDebouncedFilter ==
    /\ ~loading
    /\ ~unmounted
    /\ \E query \in MalformedQueries \ {debouncedFilter} :
          /\ debouncedFilter' = query
          /\ IF memoThrows(flatData, query)
             THEN /\ unmounted' = TRUE
                  /\ filteredData' = <<>>
                  /\ matchedItems' = <<>>
                  /\ branch' = "threw"
             ELSE LET memo == computeFilteredData(flatData, query)
                  IN  IF renderThrows(memo.result, query)
                      THEN /\ unmounted' = TRUE
                           /\ filteredData' = <<>>
                           /\ matchedItems' = memo.matchedItems
                           /\ branch' = memo.branch
                      ELSE /\ unmounted' = FALSE
                           /\ filteredData' = memo.result
                           /\ matchedItems' = memo.matchedItems
                           /\ branch' = memo.branch
    /\ UNCHANGED <<flatData, filter, timer, timers, nextTimerId, sinceInput, hung>>
    /\ UNCHANGED <<loadVars, normalizeVars, highlightVars, toastVars>>

MalformedNext == LoadData \/ SetDebouncedFilter

MalformedSpec == MalformedInit /\ [][MalformedNext]_vars

(***************************************************************************)
(* Vocabulary of the properties, stated without the operators above.       *)
(***************************************************************************)
Rendered == branch # "pending"

\* p occurs in t as a contiguous run of characters
Contains(t, p) ==
    \E i \in 1..(Len(t) - Len(p) + 1) : SubSeq(t, i, i + Len(p) - 1) = p

\* p is a prefix of t
HasPrefix(t, p) == Len(p) <= Len(t) /\ \A i \in 1..Len(p) : t[i] = p[i]

WithoutWhiteSpace(t) == SelectSeq(t, LAMBDA c : c # SPACE)

NonBlankPositions == {i \in 1..Len(debouncedFilter) : debouncedFilter[i] # SPACE}

\* the query without its leading and trailing blanks
TrimmedQuery ==
    IF NonBlankPositions = {} THEN <<>>
    ELSE LET first == CHOOSE i \in NonBlankPositions : \A j \in NonBlankPositions : i <= j
             last  == CHOOSE i \in NonBlankPositions : \A j \in NonBlankPositions : i >= j
         IN  SubSeq(debouncedFilter, first, last)

\* the trimmed query with one character removed from each end
QuotesStripped == SubSeq(TrimmedQuery, 2, Len(TrimmedQuery) - 1)

\* the trimmed query without its last character
StarStripped == SubSeq(TrimmedQuery, 1, Len(TrimmedQuery) - 1)

StartsAndEndsWithQuote ==
    /\ TrimmedQuery # <<>>
    /\ TrimmedQuery[1] = QUOTE
    /\ TrimmedQuery[Len(TrimmedQuery)] = QUOTE

EndsWithStar == TrimmedQuery # <<>> /\ TrimmedQuery[Len(TrimmedQuery)] = STAR

IsDigitQuery ==
    /\ WithoutWhiteSpace(TrimmedQuery) # <<>>
    /\ \A i \in 1..Len(TrimmedQuery) : TrimmedQuery[i] \in Digits \cup {SPACE}

\* the whitespace-separated words of the trimmed query
QueryWords ==
    LET t == TrimmedQuery
    IN  {SubSeq(t, i, j) : <<i, j>> \in
            {<<a, b>> \in (1..Len(t)) \X (1..Len(t)) :
                /\ a <= b
                /\ \A k \in a..b : t[k] # SPACE
                /\ (a = 1 \/ t[a - 1] = SPACE)
                /\ (b = Len(t) \/ t[b + 1] = SPACE)}}

NameVariants(r) == {r.name_ro, r.name_ru, r.name_en}

\* the records of flatData satisfying P, in the order of flatData
RecordsWhere(P(_)) == SelectSeq(flatData, P)

Matched == SeqToSet(matchedItems)

Shown == SeqToSet(filteredData)

IsAncestorOf(a, r) == a.id \in SeqToSet(r.parentIds)

(***************************************************************************)
(* C1: a query that is empty or holds only whitespace yields the whole     *)
(* of flatData, unchanged and in order, through the identity return: no    *)
(* matcher and no context expansion runs.                                  *)
(***************************************************************************)
EmptyQueryIsIdentity ==
    (Rendered /\ \A i \in 1..Len(debouncedFilter) : debouncedFilter[i] = SPACE)
        => (filteredData = flatData /\ branch = "identity" /\ matchedItems = <<>>)

EmptyQueryIsIdentityWitness ==
    /\ Rendered
    /\ Len(debouncedFilter) > 1
    /\ \A i \in 1..Len(debouncedFilter) : debouncedFilter[i] = SPACE
    /\ Len(flatData) > 1
    /\ filteredData = flatData

(***************************************************************************)
(* C2: for a non-empty query the shown records are exactly the matched     *)
(* records, their ancestors and the records of their subtrees at any       *)
(* depth; with no direct match nothing is shown.                           *)
(***************************************************************************)
ExpansionIsExact ==
    (Rendered /\ branch # "identity")
        => /\ Shown = {r \in SeqToSet(flatData) :
                          \/ r \in Matched
                          \/ \E m \in Matched : IsAncestorOf(r, m)
                          \/ \E m \in Matched : IsAncestorOf(m, r)}
           /\ (matchedItems = <<>> => filteredData = <<>>)

\* a single match shown with an unmatched ancestor and with an unmatched
\* descendant that is not its direct child
ExpansionIsExactWitness ==
    /\ Rendered
    /\ branch # "identity"
    /\ \E m \in Matched :
          /\ \E a \in Shown \ Matched : IsAncestorOf(a, m)
          /\ \E d \in Shown \ Matched :
                /\ IsAncestorOf(m, d)
                /\ d.parentIds[Len(d.parentIds)] # m.id

(***************************************************************************)
(* C3: the shown records are a subsequence of flatData: indexInTree is     *)
(* strictly increasing along filteredData and no id occurs twice.          *)
(***************************************************************************)
ResultIsOrderedSubsequence ==
    Rendered
        => /\ \A i \in 1..Len(filteredData) :
                 /\ filteredData[i].indexInTree + 1 \in 1..Len(flatData)
                 /\ filteredData[i] = flatData[filteredData[i].indexInTree + 1]
           /\ \A i, j \in 1..Len(filteredData) :
                 i < j => /\ filteredData[i].indexInTree < filteredData[j].indexInTree
                          /\ filteredData[i].id # filteredData[j].id

\* a shown record that is a match, an ancestor of a match and a descendant
\* of a match
ResultIsOrderedSubsequenceWitness ==
    /\ Rendered
    /\ \E r \in Shown \cap Matched :
          /\ \E m \in Matched : IsAncestorOf(r, m)
          /\ \E m \in Matched : IsAncestorOf(m, r)
    /\ Len(filteredData) > Len(matchedItems)

(***************************************************************************)
(* C4: in exact-phrase mode the direct matches are the records in which    *)
(* the normalized phrase (the trimmed query less one quote at each end)    *)
(* is a contiguous substring of the normalized name_ro, name_ru, name_en   *)
(* or nc.                                                                  *)
(***************************************************************************)
ExactPhraseMatchesField(r) ==
    \E field \in NameVariants(r) \cup {r.nc} :
        Contains(normalizeText(field), normalizeText(QuotesStripped))

ExactModeMatchesContiguousPhrase ==
    (Rendered /\ branch = "exact")
        => matchedItems = RecordsWhere(ExactPhraseMatchesField)

\* a phrase of two characters that one record holds contiguously and that
\* another record holds only across its fields
ExactModeMatchesContiguousPhraseWitness ==
    /\ Rendered
    /\ branch = "exact"
    /\ Len(normalizeText(QuotesStripped)) = 2
    /\ matchedItems # <<>>
    /\ \E r \in SeqToSet(flatData) \ Matched :
          Contains(normalizeText(r.name_ro \o r.name_ru \o r.name_en \o r.nc),
                   normalizeText(QuotesStripped))

(***************************************************************************)
(* C5: in wildcard mode the direct matches are the records whose code,     *)
(* normalized and with all whitespace removed, starts with the prefix      *)
(* (the trimmed query less its final star, normalized, whitespace          *)
(* removed).                                                               *)
(***************************************************************************)
WildcardPrefix == WithoutWhiteSpace(normalizeText(StarStripped))

StrippedCodeHasPrefix(r) ==
    HasPrefix(WithoutWhiteSpace(normalizeText(r.nc)), WildcardPrefix)

WildcardMatchesStrippedCodePrefix ==
    (Rendered /\ branch = "wildcard")
        => matchedItems = RecordsWhere(StrippedCodeHasPrefix)

(***************************************************************************)
(* C6: a query that is digits once its whitespace is removed runs in       *)
(* numeric mode, and there the direct matches are the records whose raw    *)
(* code contains that digit string.                                        *)
(***************************************************************************)
RawCodeContainsDigits(r) == Contains(r.nc, WithoutWhiteSpace(TrimmedQuery))

NumericModeMatchesRawCode ==
    Rendered
        => /\ IsDigitQuery <=> branch = "numeric"
           /\ branch = "numeric" => matchedItems = RecordsWhere(RawCodeContainsDigits)

\* digits separated by a blank, found in some codes and not in others
NumericModeMatchesRawCodeWitness ==
    /\ Rendered
    /\ branch = "numeric"
    /\ \E i \in 2..(Len(TrimmedQuery) - 1) : TrimmedQuery[i] = SPACE
    /\ matchedItems # <<>>
    /\ Len(matchedItems) < Len(flatData)

(***************************************************************************)
(* C7: in the multi-word mode the direct matches are the records in which  *)
(* every word of the query, normalized, is a substring of some normalized  *)
(* name variant; the code is not consulted.                                *)
(***************************************************************************)
EveryWordInSomeName(r) ==
    \A w \in QueryWords :
        \E name \in NameVariants(r) : Contains(normalizeText(name), normalizeText(w))

WordsModeMatchesNamesOnly ==
    (Rendered /\ branch = "words")
        => matchedItems = RecordsWhere(EveryWordInSomeName)

\* two words that a matched record holds in different name variants, and
\* an unmatched record that holds one of the words only in its code
WordsModeMatchesNamesOnlyWitness ==
    /\ Rendered
    /\ branch = "words"
    /\ Cardinality(QueryWords) = 2
    /\ \E r \in Matched :
          \A name \in NameVariants(r) :
              \E w \in QueryWords : ~Contains(normalizeText(name), normalizeText(w))
    /\ \E r \in SeqToSet(flatData) \ Matched :
          \A w \in QueryWords :
              \E field \in NameVariants(r) \cup {r.nc} :
                  Contains(normalizeText(field), normalizeText(w))

(***************************************************************************)
(* C8: a non-empty query runs in exactly one mode, the first that applies  *)
(* in the order exact-phrase, wildcard, numeric, multi-word: a quoted      *)
(* query is never wildcard or numeric, a query ending in a star is never   *)
(* numeric or multi-word.                                                  *)
(***************************************************************************)
ModeIsFirstMatchingRule ==
    (Rendered /\ TrimmedQuery # <<>>)
        => /\ branch \in {"exact", "wildcard", "numeric", "words"}
           /\ StartsAndEndsWithQuote => branch \notin {"wildcard", "numeric"}
           /\ (StartsAndEndsWithQuote /\ Len(TrimmedQuery) > 1) => branch = "exact"
           /\ EndsWithStar => branch \notin {"numeric", "words"}
           /\ ~StartsAndEndsWithQuote =>
                 branch = IF EndsWithStar THEN "wildcard"
                          ELSE IF IsDigitQuery THEN "numeric"
                          ELSE "words"

\* quoted digits matched as a phrase: a direct match whose code does not
\* hold the digits
ModeIsFirstMatchingRuleWitness ==
    /\ Rendered
    /\ StartsAndEndsWithQuote
    /\ QuotesStripped # <<>>
    /\ \A i \in 1..Len(QuotesStripped) : QuotesStripped[i] \in Digits
    /\ branch = "exact"
    /\ \E r \in Matched : ~Contains(r.nc, QuotesStripped)

(***************************************************************************)
(* C9: a query runs in exact-phrase mode only if it starts and ends with   *)
(* a double quote and is longer than one character.                        *)
(***************************************************************************)
ExactModeNeedsTwoQuotes ==
    (Rendered /\ branch = "exact")
        => (StartsAndEndsWithQuote /\ Len(TrimmedQuery) > 1)

(***************************************************************************)
(* C10: when nothing is left of an exact-phrase query once its quotes are  *)
(* stripped, or of a wildcard query once its star is stripped, no record   *)
(* is matched and none is shown.                                           *)
(***************************************************************************)
EmptyTermMatchesNothing ==
    (\/ Rendered /\ branch = "exact" /\ QuotesStripped = <<>>
     \/ Rendered /\ branch = "wildcard" /\ StarStripped = <<>>)
        => (matchedItems = <<>> /\ filteredData = <<>>)

(***************************************************************************)
(* C11: a query of digits separated by blanks or by dots is an NC code     *)
(* search: the separators are ignored and the direct matches are the       *)
(* records whose code contains the remaining digits.                       *)
(***************************************************************************)
WithoutSeparators(t) == SelectSeq(t, LAMBDA c : c \notin {SPACE, DOT})

IsSeparatedDigitQuery ==
    /\ WithoutSeparators(TrimmedQuery) # <<>>
    /\ \A i \in 1..Len(TrimmedQuery) : TrimmedQuery[i] \in Digits \cup {SPACE, DOT}

CodeContainsSeparatedDigits(r) == Contains(r.nc, WithoutSeparators(TrimmedQuery))

SeparatorsAreIgnoredInCodeSearch ==
    (Rendered /\ IsSeparatedDigitQuery)
        => /\ branch = "numeric"
           /\ matchedItems = RecordsWhere(CodeContainsSeparatedDigits)

(***************************************************************************)
(* C12: search is case- and diacritic-insensitive.  Two text queries with  *)
(* the same normalized form give the same result, and a query matches the  *)
(* records it matches once their fields have lost case and diacritics.     *)
(***************************************************************************)
BaseLetter(c) ==
    CASE c \in {"A", "a", "A+breve", "a+breve"} -> "a"
      [] c \in {"B", "b"} -> "b"
      [] OTHER -> c

\* t without case and without diacritics
CaseAndMarksRemoved(t) ==
    LET kept == SelectSeq(t, LAMBDA c : c # "+breve")
    IN  [i \in 1..Len(kept) |-> BaseLetter(kept[i])]

TextModes == {"exact", "wildcard", "words"}

SameNormalFormQueries ==
    {q \in TextQueries : CaseAndMarksRemoved(q) = CaseAndMarksRemoved(debouncedFilter)}

PlainRecord(r) ==
    [r EXCEPT !.name_ro = CaseAndMarksRemoved(r.name_ro),
              !.name_ru = CaseAndMarksRemoved(r.name_ru),
              !.name_en = CaseAndMarksRemoved(r.name_en),
              !.nc      = CaseAndMarksRemoved(r.nc)]

PlainData == [i \in 1..Len(flatData) |-> PlainRecord(flatData[i])]

IdsOf(records) == [i \in 1..Len(records) |-> records[i].id]

MatchesFieldsWithoutDiacritics ==
    IdsOf(computeFilteredData(PlainData, debouncedFilter).matchedItems) = IdsOf(matchedItems)

\* the claim as written: any two text queries of equal normalized form
SameNormalFormSameResult ==
    (Rendered /\ branch \in TextModes)
        => /\ \A q \in SameNormalFormQueries :
                 LET other == computeFilteredData(flatData, q)
                 IN  other.branch \in TextModes => other.result = filteredData
           /\ MatchesFieldsWithoutDiacritics

\* amended: the two queries run in the same mode
SameModeSameNormalFormSameResult ==
    (Rendered /\ branch \in TextModes)
        => /\ \A q \in SameNormalFormQueries :
                 LET other == computeFilteredData(flatData, q)
                 IN  other.branch = branch
                        => /\ other.result = filteredData
                           /\ other.matchedItems = matchedItems
           /\ MatchesFieldsWithoutDiacritics

\* a query that differs from an equivalent one of the same mode and that
\* matches a record none of whose raw fields holds the raw search term
SameModeSameNormalFormSameResultWitness ==
    /\ Rendered
    /\ branch = "words"
    /\ \E q \in SameNormalFormQueries :
          q # debouncedFilter /\ computeFilteredData(flatData, q).branch = branch
    /\ \E r \in Matched :
          \A field \in NameVariants(r) : ~Contains(field, TrimmedQuery)
    /\ Len(matchedItems) < Len(flatData)

(***************************************************************************)
(* Vocabulary of the flattener's properties: a node of the document is     *)
(* named by its path, the sequence of child indices leading to it.         *)
(***************************************************************************)
Loaded == ~loading /\ response = "ok"

ChildrenOf(node) == IF "children" \in DOMAIN node THEN node.children ELSE <<>>

RECURSIVE PathsOf(_)
PathsOf(nodes) ==
    UNION {{<<i>>} \cup {<<i>> \o p : p \in PathsOf(ChildrenOf(nodes[i]))} :
              i \in 1..Len(nodes)}

RECURSIVE NodeAt(_, _)
NodeAt(nodes, path) ==
    IF Len(path) = 1 THEN nodes[path[1]]
    ELSE NodeAt(ChildrenOf(nodes[path[1]]), Tail(path))

\* p comes before q in depth-first pre-order
Before(p, q) ==
    \/ Len(p) < Len(q) /\ SubSeq(q, 1, Len(p)) = p
    \/ \E i \in 1..Min(Len(p), Len(q)) :
          /\ SubSeq(p, 1, i - 1) = SubSeq(q, 1, i - 1)
          /\ p[i] < q[i]

PositionOf(path) == Cardinality({q \in PathsOf(data) : Before(q, path)})

RecordOf(path) == flatData[PositionOf(path) + 1]

AncestorIdsOf(path) ==
    [i \in 1..(Len(path) - 1) |-> NodeAt(data, SubSeq(path, 1, i)).id]

(***************************************************************************)
(* C13: flatten gives one record per node in depth-first pre-order; the    *)
(* level of a record is its nesting depth, its parentIds the ids from the  *)
(* root down to its parent, its indexInTree its position, and idToIndex    *)
(* sends its id to that position.                                          *)
(***************************************************************************)
FlattenIsPreOrder ==
    Loaded
        => /\ Len(flatData) = Cardinality(PathsOf(data))
           /\ \A path \in PathsOf(data) :
                 /\ RecordOf(path).id = NodeAt(data, path).id
                 /\ RecordOf(path).level = Len(path) - 1
                 /\ RecordOf(path).parentIds = AncestorIdsOf(path)
                 /\ RecordOf(path).indexInTree = PositionOf(path)
                 /\ idToIndex[RecordOf(path).id] = PositionOf(path)

\* the example: order [1,2,3], depths [0,1,1], ancestors [1] for 2 and 3
FlattenIsPreOrderWitness ==
    /\ Loaded
    /\ data = DocExample
    /\ IdsOf(flatData) = <<1, 2, 3>>
    /\ [i \in 1..3 |-> flatData[i].level] = <<0, 1, 1>>
    /\ flatData[2].parentIds = <<1>>
    /\ flatData[3].parentIds = <<1>>
    /\ idToIndex = (1 :> 0) @@ (2 :> 1) @@ (3 :> 2)

(***************************************************************************)
(* C14: every id in a record's parentIds is the id of a record strictly    *)
(* earlier in flatData, and the record has as many parentIds as its        *)
(* level.                                                                  *)
(***************************************************************************)
AncestorsComeEarlier ==
    Loaded
        => \A i \in 1..Len(flatData) :
              /\ Len(flatData[i].parentIds) = flatData[i].level
              /\ \A k \in 1..Len(flatData[i].parentIds) :
                    \E j \in 1..(i - 1) : flatData[j].id = flatData[i].parentIds[k]

\* a record whose parent is not the record just before it, in a document
\* that has a record with two ancestors
AncestorsComeEarlierWitness ==
    /\ Loaded
    /\ \E i \in 2..Len(flatData) :
          /\ flatData[i].level >= 1
          /\ flatData[i - 1].level > flatData[i].level
    /\ \E i \in 1..Len(flatData) : Len(flatData[i].parentIds) = 2

(***************************************************************************)
(* C15: an optional field that is absent from a node (code, a name         *)
(* variant, the regulatory acts, the tax info or one of its fields, the    *)
(* children) is the empty string or the empty list in the flat record;     *)
(* every flat record holds every field.                                    *)
(***************************************************************************)
FieldOrEmpty(obj, f) == IF f \in DOMAIN obj THEN obj[f] ELSE <<>>

TaxFieldOrEmpty(node, f) ==
    IF "tax_info" \in DOMAIN node THEN FieldOrEmpty(node.tax_info, f) ELSE <<>>

FlatFields ==
    {"id", "nc", "name_ro", "name_ru", "name_en", "import_acts", "level",
     "parentIds", "indexInTree", "vat", "excise", "tax_values"}

AbsentFieldsBecomeEmpty ==
    Loaded
        => \A path \in PathsOf(data) :
              LET node == NodeAt(data, path)
                  r    == RecordOf(path)
              IN  /\ DOMAIN r = FlatFields
                  /\ \A f \in {"nc", "name_ro", "name_ru", "name_en", "import_acts"} :
                        r[f] = FieldOrEmpty(node, f)
                  /\ \A f \in {"vat", "excise", "tax_values"} :
                        r[f] = TaxFieldOrEmpty(node, f)

\* one document with a node lacking code, names, acts, tax info and
\* children, and a node whose tax info lacks the excise and the rate list
AbsentFieldsBecomeEmptyWitness ==
    /\ Loaded
    /\ \E path \in PathsOf(data) :
          DOMAIN NodeAt(data, path) = {"id"}
    /\ \E path \in PathsOf(data) :
          /\ "tax_info" \in DOMAIN NodeAt(data, path)
          /\ DOMAIN NodeAt(data, path).tax_info = {"vat"}
          /\ RecordOf(path).excise = <<>>
          /\ RecordOf(path).tax_values = <<>>
          /\ RecordOf(path).vat # <<>>

(***************************************************************************)
(* C16: normalizeText is idempotent: normalizing what it returned for a    *)
(* string (with capitals, diacritics or stand-alone combining marks)       *)
(* gives the same string.                                                  *)
(***************************************************************************)
Returned == normalizeResult # Pending

NormalizeIsIdempotent ==
    (Returned /\ normalizeArg # Null)
        => normalizeText(normalizeResult) = normalizeResult

\* a capital letter with a diacritic followed by a letter with a
\* stand-alone mark
NormalizeIsIdempotentWitness ==
    /\ Returned
    /\ normalizeArg = <<"A+breve", "a", "+breve">>
    /\ normalizeResult = <<"a", "a">>

(***************************************************************************)
(* C17: normalizeText of null or of the empty string is the empty string,  *)
(* and no error is raised.                                                 *)
(***************************************************************************)
NullOrEmptyNormalizesToEmpty ==
    (Returned /\ normalizeArg \in {Null, <<>>})
        => normalizeResult = <<>>

(***************************************************************************)
(* Vocabulary of the highlighter's properties.                             *)
(***************************************************************************)
HighlightReturned == pc = "done"

\* the call went through the scan of every word and returned
ScannedAndReturned ==
    HighlightReturned /\ text # <<>> /\ searchWordsOf(searchTerm) # <<>>

MarkedParts == SelectSeq(parts, LAMBDA part : part.mark)

\* the offsets a set of ranges covers
Covered(ranges) == UNION {r.start .. (r.end - 1) : r \in ranges}

NormalizedWords ==
    {normalizeText(searchWordsOf(searchTerm)[i]) :
        i \in 1..Len(searchWordsOf(searchTerm))}

\* every occurrence of word in str, overlapping ones included
Occurrences(str, word) ==
    {[start |-> i, end |-> i + Len(word)] :
        i \in {j \in 0..(Len(str) - Len(word)) :
                  SubSeq(str, j + 1, j + Len(word)) = word}}

\* the occurrences met by a left-to-right scan that resumes at the end of
\* the occurrence it found
RECURSIVE NonOverlappingOccurrences(_, _, _)
NonOverlappingOccurrences(str, word, from) ==
    IF \E r \in Occurrences(str, word) : r.start >= from
    THEN LET first == CHOOSE r \in Occurrences(str, word) :
                         /\ r.start >= from
                         /\ \A q \in Occurrences(str, word) :
                               q.start >= from => r.start <= q.start
         IN  {first} \cup NonOverlappingOccurrences(str, word, first.end)
    ELSE {}

(***************************************************************************)
(* C18: normalization preserves positions: the normalized text is as long  *)
(* as the text, and every marked part, once normalized, is the stretch of  *)
(* the normalized text its range was found at; also for texts that hold    *)
(* stand-alone combining marks.                                            *)
(***************************************************************************)
NormalizationPreservesPositions ==
    ScannedAndReturned
        => /\ Len(normalizeText(text)) = Len(text)
           /\ Len(MarkedParts) = Len(merged)
           /\ \A i \in 1..Len(merged) :
                 normalizeText(MarkedParts[i].text)
                     = substring(normalizeText(text), merged[i].start, merged[i].end)

(***************************************************************************)
(* C19 as stated: the ranges collected for the words are their             *)
(* non-overlapping occurrences in the normalized text, scanned left to     *)
(* right, and the highlighted region is the union of these.                *)
(***************************************************************************)
CollectsNonOverlappingOccurrences ==
    ScannedAndReturned
        => LET expected ==
                   UNION {NonOverlappingOccurrences(normalizeText(text), w, 0) :
                             w \in NormalizedWords}
           IN  /\ SeqToSet(matches) = expected
               /\ Covered(SeqToSet(merged)) = Covered(expected)

(***************************************************************************)
(* C19 amended: the ranges collected for the words are all their           *)
(* occurrences in the normalized text, overlapping ones included, and the  *)
(* highlighted region is the union of these.                               *)
(***************************************************************************)
CollectsAllOccurrences ==
    ScannedAndReturned
        => LET expected ==
                   UNION {Occurrences(normalizeText(text), w) : w \in NormalizedWords}
           IN  /\ SeqToSet(matches) = expected
               /\ Covered(SeqToSet(merged)) = Covered(expected)

\* the word aa in the text aaa: both occurrences are collected and the
\* offsets 0 to 3 are highlighted
CollectsAllOccurrencesWitness ==
    /\ ScannedAndReturned
    /\ text = <<"a", "a", "a">>
    /\ searchTerm = <<"a", "a">>
    /\ SeqToSet(matches) = {[start |-> 0, end |-> 2], [start |-> 1, end |-> 3]}
    /\ merged = <<[start |-> 0, end |-> 3]>>
    /\ parts = <<Mark(<<"a", "a", "a">>)>>

(***************************************************************************)
(* C20: after the merge the ranges are sorted by start, each ends          *)
(* strictly before the next begins, each is non-empty and lies within the  *)
(* text, and no two neighbouring parts are both marked or both plain.      *)
(***************************************************************************)
MergedRangesAreSeparated ==
    ScannedAndReturned
        => /\ \A i \in 1..(Len(merged) - 1) : merged[i].end < merged[i + 1].start
           /\ \A i \in 1..Len(merged) :
                 /\ 0 <= merged[i].start
                 /\ merged[i].start < merged[i].end
                 /\ merged[i].end <= Len(text)
           /\ \A i \in 1..(Len(parts) - 1) : parts[i].mark # parts[i + 1].mark

\* two ranges that touch were merged into one, followed by a plain part
MergedRangesAreSeparatedWitness ==
    /\ ScannedAndReturned
    /\ \E i, j \in 1..Len(matches) : matches[i].end = matches[j].start
    /\ Len(matches) = 2
    /\ Len(merged) = 1
    /\ Len(parts) = 2
    /\ parts[1].mark

(***************************************************************************)
(* C21: the texts of the parts returned, put end to end, are the text      *)
(* itself; when the term holds no word or no word occurs, the text is      *)
(* returned as one plain part.                                             *)
(***************************************************************************)
RECURSIVE Concatenated(_)
Concatenated(ps) ==
    IF ps = <<>> THEN <<>> ELSE Head(ps).text \o Concatenated(Tail(ps))

NoWordOccurs ==
    \A w \in NormalizedWords : Occurrences(normalizeText(text), w) = {}

PartsReproduceText ==
    HighlightReturned
        => /\ Concatenated(parts) = text
           /\ (searchWordsOf(searchTerm) = <<>> \/ NoWordOccurs)
                 => parts = <<Plain(text)>>

\* a capital letter with a diacritic matched by the plain small letter,
\* followed by a plain part
PartsReproduceTextWitness ==
    /\ HighlightReturned
    /\ text = <<"A+breve", "b", "a">>
    /\ searchTerm = <<"a">>
    /\ parts = <<Mark(<<"A+breve">>), Plain(<<"b">>), Mark(<<"a">>)>>

(***************************************************************************)
(* C26: the highlighter returns for every text and every search term,      *)
(* also when a word of the term has an empty normalized form: every        *)
(* iteration of the scanning loop either leaves the loop or moves          *)
(* startIndex forward.  An iteration that does neither leaves the text,    *)
(* the word and startIndex as they were, so it is repeated for ever.       *)
(***************************************************************************)
ScanLoopReachesExit ==
    pc = "scan"
        => LET normalizedWord == normalizeText(searchWordsOf(searchTerm)[wordIndex])
               index == indexOf(normalizeText(text), normalizedWord, startIndex)
           IN  index = -1 \/ nextStartIndex(index, normalizedWord) > startIndex

(***************************************************************************)
(* C30: the displayed result is closed under ancestors: every id in the    *)
(* parentIds of a displayed record belongs to a record displayed earlier   *)
(* in the list, also for records displayed only as descendants of a match. *)
(***************************************************************************)
DisplayedIsClosedUnderAncestors ==
    branch # "pending"
        => \A i \in 1..Len(filteredData) :
              \A k \in 1..Len(filteredData[i].parentIds) :
                 \E j \in 1..(i - 1) :
                    filteredData[j].id = filteredData[i].parentIds[k]

\* a record displayed only as a descendant of a match, two levels down,
\* under a parent that is not matched either
DisplayedIsClosedUnderAncestorsWitness ==
    /\ branch \notin {"pending", "identity"}
    /\ \E r \in Shown :
          /\ r \notin Matched
          /\ Len(r.parentIds) >= 2
          /\ \E a \in Matched : IsAncestorOf(a, r)
          /\ \E q \in Shown \ Matched : r.parentIds[Len(r.parentIds)] = q.id

(***************************************************************************)
(* C24: a load that fails is surfaced: what the component holds and shows  *)
(* after it differs from what it holds and shows after loading a document  *)
(* without records.                                                        *)
(***************************************************************************)
ViewState == <<loading, flatData, filteredData, filter, debouncedFilter, toast>>

ViewOfEmptyDataset == <<FALSE, <<>>, <<>>, <<>>, <<>>, NoToastShown>>

LoadFailureIsSurfaced ==
    (~loading /\ response = "rejected") => ViewState # ViewOfEmptyDataset

(***************************************************************************)
(* C22: the debounced query changes only when a debounce timer fires       *)
(* after the raw input stayed unchanged for the whole delay, and then      *)
(* takes the value of the raw input; a change of the raw input leaves the  *)
(* debounced query and the displayed rows as they are, and every timer     *)
(* still pending holds the raw input, never a superseded value.            *)
(***************************************************************************)
DebouncedChangesOnlyOnQuietTimer ==
    [][/\ debouncedFilter' # debouncedFilter
            => /\ sinceInput >= DebounceDelay
               /\ filter' = filter
               /\ debouncedFilter' = filter
               /\ \E t \in timers : t.value = filter /\ t \notin timers'
       /\ filter' # filter
            => /\ debouncedFilter' = debouncedFilter
               /\ filteredData' = filteredData
               /\ \A t \in timers' : t.value = filter']_vars

\* the input changed at least twice and the last value, not empty, has
\* become the debounced query and has been searched
DebouncedChangesOnlyOnQuietTimerWitness ==
    /\ nextTimerId >= 4
    /\ filter # <<>>
    /\ debouncedFilter = filter
    /\ timers = {}
    /\ sinceInput = DebounceDelay
    /\ branch # "identity"
    /\ filteredData # <<>>

(***************************************************************************)
(* C23: searching, expanding and rendering leave the flattened records as  *)
(* they were right after loading, and an empty query returns that          *)
(* sequence.                                                               *)
(***************************************************************************)
FlatDataIsNeverChanged ==
    Loaded
        => /\ flatData = flatten(<<>>, data, 0, <<>>)
           /\ isEmptyFilter(debouncedFilter) => filteredData = flatData

\* a query that displays some of the records only has been searched
FlatDataIsNeverChangedWitness ==
    /\ Loaded
    /\ nextTimerId >= 3
    /\ branch # "identity"
    /\ filteredData # <<>>
    /\ filteredData # flatData
    /\ flatData = flatten(<<>>, data, 0, <<>>)

(***************************************************************************)
(* C27: at most one debounce timer is pending, and it is the one set for   *)
(* the last value of the raw input: no timer set for an earlier value is   *)
(* left to fire.                                                           *)
(***************************************************************************)
AtMostOneDebounceTimer ==
    /\ Cardinality(timers) <= 1
    /\ \A t \in timers : t.id = timer /\ t.value = filter

\* after three changes of the input the one timer pending is the last one
AtMostOneDebounceTimerWitness ==
    /\ nextTimerId >= 5
    /\ filter # <<>>
    /\ timers = {[id |-> timer, value |-> filter, remaining |-> DebounceDelay]}
    /\ timer = nextTimerId - 1

(***************************************************************************)
(* C29: once the input is left alone, the debounced query comes to equal   *)
(* the raw input and the displayed rows come to be the result of the       *)
(* search for it over the loaded records, and stay so.                     *)
(***************************************************************************)
InputIsEventuallySearched ==
    <>[](/\ debouncedFilter = filter
         /\ filteredData = computeFilteredData(flatData, filter).result)

(***************************************************************************)
(* C28: a toast is hidden only when it has been visible for its whole      *)
(* delay: the hide timer of an earlier action does not hide the toast of   *)
(* a later action before.                                                  *)
(***************************************************************************)
ToastStaysForItsDelay ==
    [][(toast.show /\ ~toast'.show) => sinceToast >= ToastDelay]_vars


(***************************************************************************)
(* C25: one malformed record never makes the flattening or a later search  *)
(* throw: once the document is loaded every node of it is a flattened     *)
(* record, and no query committed afterwards throws and unmounts the       *)
(* component.                                                              *)
(***************************************************************************)
MalformedRecordIsConfined ==
    Loaded => /\ Len(flatData) = Cardinality(PathsOf(data))
              /\ ~unmounted
              /\ branch # "threw"

====
